---- MODULE Spec2Model ----
(***************************************************************************)
(* xpersist: persisted_Dataset / persist_ds (src/xpersist/core.py).        *)
(*                                                                         *)
(* A call  persist_ds(func, name, path, ...)(arg)  is modelled in two      *)
(* steps per thread: Call (construction, tokenize and                      *)
(* _check_token_assign_action) and Execute (the rest of __call__: read     *)
(* the cache file, or compute and write it).  The class dictionaries       *)
(* _tokens and _actions, the files and the directories are shared state.   *)
(***************************************************************************)
EXTENDS Integers, Sequences, FiniteSets, TLC

\* ------------------------------------------------------------------ bounds
MaxArg == 2       \* func is called with arguments 1..MaxArg
MaxUuid == 1      \* values uuid4() may return
NumThreads == 2   \* threads that may call

Threads == 1..NumThreads
Args == 1..MaxArg
Uuids == 1..MaxUuid

\* ------------------------------------------------------ values of the code
\* Strings the code inspects are sequences of characters.
NC == <<"n", "c">>
Dot == <<".">>

ActionNames == {"read_cache_trusted", "read_cache_verified", "overwrite_cache", "create_cache"}
Formats == {NC}
\* Mutant: the read branch of __call__ misses read_cache_verified.
ReadActions_TrustedOnly == {"read_cache_trusted"}
ReadActions == {"read_cache_trusted", "read_cache_verified"}
WriteActions == {"create_cache", "overwrite_cache"}

\* settings['cache_dir']
CacheDir == "cached_data"

\* An optional argument is <<>> (None) or <<value>>.
NameArgs == {<<>>, <<<<"t">>>>, <<<<"t", ".", "n", "c">>>>, <<<<"u">>>>}
PathArgs == {<<>>, <<CacheDir>>}
\* Keyword arguments the callers pass to persist_ds beyond its parameters.
Kwargs == {"none", "trust_cache", "clobber"}
\* The keywords persist_ds accepts besides func, name, path, format, open_ds_kwargs.
ExtraKeywords == {}

Func == "func"
\* func(scaleby): the dataset is a function of the function and its argument.
Compute(f, arg) == [by |-> f, x |-> arg]
\* dask.base.tokenize(func, args, kwargs): deterministic and injective.
tokenize(f, arg) == <<f, arg>>
Tokens == {tokenize(Func, a) : a \in Args}
Datasets == {Compute(Func, a) : a \in Args}

NoToken == <<"", 0>>
NoDataset == [by |-> "", x |-> 0]
NoFile == [dir |-> "", base |-> <<>>]

\* ---------------------------------------------------------------- helpers
EndsWith(s, suffix) ==
    /\ Len(s) >= Len(suffix)
    /\ SubSeq(s, Len(s) - Len(suffix) + 1, Len(s)) = suffix

\* uuid.uuid4(): a UUID object (k stands for the random bits).
uuid4(k) == [type |-> "UUID", val |-> [i \in 1..k |-> "f"]]
Str(s) == [type |-> "str", val |-> s]

InitName(nameArg, u) == IF nameArg = <<>> THEN uuid4(u[1]) ELSE Str(nameArg[1])
InitPath(pathArg) == IF pathArg = <<>> THEN CacheDir ELSE pathArg[1]

\* self._name.endswith exists for a str and not for a UUID.
HasEndswith(name) == name.type = "str"

basename(name, format) ==
    IF EndsWith(name.val, Dot \o format)
    THEN name.val
    ELSE name.val \o Dot \o format

\* os.path.join(self._path, self._basename)
cache_file(path, name, format) == [dir |-> path, base |-> basename(name, format)]
dirname(file) == file.dir

\* The observers follow one cache file; the code treats every file alike.
Watched == cache_file(CacheDir, Str(<<"t">>), NC)

CacheFiles == {cache_file(InitPath(p), Str(n[1]), NC) : p \in PathArgs, n \in NameArgs \ {<<>>}}

\* dict[k] = v
SetItem(d, k, v) == [x \in DOMAIN d \cup {k} |-> IF x = k THEN v ELSE d[x]]
DelItem(d, k) == [x \in DOMAIN d \ {k} |-> d[x]]

\* The Action Log is a dict in insertion order: a sequence of <<key, value>>.
LogKeys(log) == {log[i].key : i \in 1..Len(log)}
LogGet(log, k) == (CHOOSE i \in 1..Len(log) : log[i].key = k)
LogValue(log, k) == log[LogGet(log, k)].val
LogSet(log, k, v) ==
    IF k \in LogKeys(log)
    THEN [log EXCEPT ![LogGet(log, k)] = [key |-> k, val |-> v]]
    ELSE Append(log, [key |-> k, val |-> v])

\* os.path.exists(self._cache_file)
cache_exists(files, file) == file \in DOMAIN files
\* Mutant: the stale file is left in place.
os_remove_Noop(files, file) == files
os_remove(files, file) == DelItem(files, file)
\* Mutant: the directory is not made.
os_makedirs_Noop(ds, d) == ds
os_makedirs(ds, d) == IF d /= "" THEN ds \cup {d} ELSE ds

\* Mutant: the comparison of line 61 inverted.
TokenMismatch_Inverted(token, known) == token = known
\* token != persisted_Dataset._tokens[self._cache_file]
TokenMismatch(token, known) == token /= known

\* Mutant: the trusted branch does not record the token.
AssumeCorrect_Forgets(toks, file, token) == toks
\* The trusted branch: persisted_Dataset._tokens[self._cache_file] = token
AssumeCorrect(toks, file, token) == SetItem(toks, file, token)

\* Mutant: the create branch replaces the registry by the one new entry.
RegisterCreated_Clears(toks, file, token) == [x \in {file} |-> token]
\* Mutant: the create branch does not record the token.
RegisterCreated_Forgets(toks, file, token) == toks
\* The create branch: persisted_Dataset._tokens[self._cache_file] = token
RegisterCreated(toks, file, token) == SetItem(toks, file, token)

\* Mutant: line 60 looks the file up in _actions instead of _tokens.
check_token_assign_action_ReadsLog(file, token, T, A, F, D) ==
    IF cache_exists(F, file)
    THEN IF file \in LogKeys(A)
         THEN IF TokenMismatch(token, T[file])
              THEN [tokens |-> T,
                    actions |-> LogSet(A, file, "overwrite_cache"),
                    fs |-> os_remove(F, file),
                    dirs |-> D]
              ELSE [tokens |-> T,
                    actions |-> LogSet(A, file, "read_cache_verified"),
                    fs |-> F,
                    dirs |-> D]
         ELSE [tokens |-> AssumeCorrect(T, file, token),
               actions |-> LogSet(A, file, "read_cache_trusted"),
               fs |-> F,
               dirs |-> D]
    ELSE [tokens |-> RegisterCreated(T, file, token),
          actions |-> LogSet(A, file, "create_cache"),
          fs |-> F,
          dirs |-> os_makedirs(D, dirname(file))]

\* Mutant: the decision looks at the Token Registry before the file.
check_token_assign_action_RegistryFirst(file, token, T, A, F, D) ==
    IF file \in DOMAIN T
    THEN IF TokenMismatch(token, T[file])
         THEN [tokens |-> T,
               actions |-> LogSet(A, file, "overwrite_cache"),
               fs |-> os_remove(F, file),
               dirs |-> D]
         ELSE [tokens |-> T,
               actions |-> LogSet(A, file, "read_cache_verified"),
               fs |-> F,
               dirs |-> D]
    ELSE IF cache_exists(F, file)
         THEN [tokens |-> AssumeCorrect(T, file, token),
               actions |-> LogSet(A, file, "read_cache_trusted"),
               fs |-> F,
               dirs |-> D]
         ELSE [tokens |-> RegisterCreated(T, file, token),
               actions |-> LogSet(A, file, "create_cache"),
               fs |-> F,
               dirs |-> os_makedirs(D, dirname(file))]

\* _check_token_assign_action: the state it leaves, from the state it finds.
check_token_assign_action(file, token, T, A, F, D) ==
    IF cache_exists(F, file)
    THEN IF file \in DOMAIN T
         THEN IF TokenMismatch(token, T[file])
              THEN [tokens |-> T,
                    actions |-> LogSet(A, file, "overwrite_cache"),
                    fs |-> os_remove(F, file),
                    dirs |-> D]
              ELSE [tokens |-> T,
                    actions |-> LogSet(A, file, "read_cache_verified"),
                    fs |-> F,
                    dirs |-> D]
         ELSE [tokens |-> AssumeCorrect(T, file, token),
               actions |-> LogSet(A, file, "read_cache_trusted"),
               fs |-> F,
               dirs |-> D]
    ELSE [tokens |-> RegisterCreated(T, file, token),
          actions |-> LogSet(A, file, "create_cache"),
          fs |-> F,
          dirs |-> os_makedirs(D, dirname(file))]

\* ------------------------------------------------------------------ state
VARIABLES
    tokens,   \* persisted_Dataset._tokens: cache file -> token
    actions,  \* persisted_Dataset._actions: cache file -> action, in insertion order
    fs,       \* the files that exist: cache file -> dataset stored in it
    dirs,     \* the directories that exist
    pc,       \* per thread: "idle" or "decided" (between the decision and the execution)
    cur,      \* per thread: the call in flight
    last,     \* observer: the outcome of the call the latest step completed
    atStart,  \* observer: whether the watched file existed at process start
    hist      \* observer: the completed calls on the watched file

vars == <<tokens, actions, fs, dirs, pc, cur, last, atStart, hist>>

\* How the token of a call relates to the Token Registry when the call starts.
Registered(toks, file, token) ==
    IF file \notin DOMAIN toks THEN "unknown"
    ELSE IF toks[file] = token THEN "same" ELSE "differ"

NoCall == [file |-> NoFile, arg |-> 0, token |-> NoToken, existed |-> FALSE,
           reg |-> "unknown", decided |-> "none"]

NoLast == [status |-> "none", kw |-> "none", named |-> FALSE, existed |-> FALSE,
           decided |-> "none", branch |-> "none", repeat |-> FALSE]

\* The observer records a call without a name, and a call on the watched file.
Seen(file, rec) == IF file \in {NoFile, Watched} THEN rec ELSE NoLast

NoHist(stage) == [token |-> NoToken, decided |-> "none", stage |-> stage]

Init ==
    /\ tokens = <<>>
    /\ actions = <<>>
    /\ \E S \in SUBSET CacheFiles : fs \in [S -> Datasets]
    /\ dirs \in SUBSET {CacheDir}
    /\ \A f \in DOMAIN fs : dirname(f) \in dirs
    /\ pc = [t \in Threads |-> "idle"]
    /\ cur = [t \in Threads |-> NoCall]
    /\ last = NoLast
    /\ atStart = (Watched \in DOMAIN fs)
    /\ hist = NoHist(IF atStart THEN "other" ELSE "fresh")

\* ---------------------------------------------------------------- actions
\* persist_ds(func, name=..., path=..., kw=True): a keyword that is no parameter
\* of persist_ds is a TypeError of the call of persist_ds itself.
PersistDsRejects(nameArg, pathArg, kw) ==
    /\ kw \in Kwargs \ ({"none"} \cup ExtraKeywords)
    /\ LET file == IF nameArg = <<>> THEN NoFile
                   ELSE cache_file(InitPath(pathArg), Str(nameArg[1]), NC)
       IN last' = Seen(file, [NoLast EXCEPT !.status = "TypeError", !.kw = kw,
                                            !.named = (nameArg /= <<>>),
                                            !.existed = cache_exists(fs, file)])
    /\ UNCHANGED <<tokens, actions, fs, dirs, pc, cur, atStart, hist>>

\* persist_ds(func, name=..., path=...)(arg), up to the end of
\* _check_token_assign_action.  u is <<the value uuid4() returns>>, or <<>> when
\* uuid4() is not called.
Call(t, nameArg, pathArg, arg, u) ==
    /\ pc[t] = "idle"
    /\ LET name == InitName(nameArg, u)
           path == InitPath(pathArg)
           token == tokenize(Func, arg)
       IN IF ~HasEndswith(name)
          THEN \* _basename: 'UUID' object has no attribute 'endswith'
               /\ last' = [NoLast EXCEPT !.status = "AttributeError"]
               /\ UNCHANGED <<tokens, actions, fs, dirs, pc, cur, atStart, hist>>
          ELSE LET file == cache_file(path, name, NC)
                   r == check_token_assign_action(file, token, tokens, actions, fs, dirs)
               IN /\ tokens' = r.tokens
                  /\ actions' = r.actions
                  /\ fs' = r.fs
                  /\ dirs' = r.dirs
                  /\ pc' = [pc EXCEPT ![t] = "decided"]
                  /\ cur' = [cur EXCEPT ![t] =
                                [file |-> file, arg |-> arg, token |-> token,
                                 existed |-> cache_exists(fs, file),
                                 reg |-> Registered(tokens, file, token),
                                 decided |-> LogValue(r.actions, file)]]
                  /\ last' = NoLast
                  /\ UNCHANGED <<atStart, hist>>

\* The observer after a completed call on the watched file.  stage: "fresh" while
\* the file was absent at process start and nothing touched it; "first",
\* "second", "later" count the completed calls of a run that began fresh, had
\* one token throughout and no removal from outside; "other" otherwise.
HistAfter(h, token, decided) ==
    [token |-> token,
     decided |-> decided,
     stage |-> IF h.stage = "fresh" THEN "first"
               ELSE IF h.stage = "first" /\ h.token = token THEN "second"
               ELSE IF h.stage \in {"second", "later"} /\ h.token = token THEN "later"
               ELSE "other"]

Observe(file, token, decided) ==
    hist' = IF file = Watched THEN HistAfter(hist, token, decided) ELSE hist

\* __call__ after the decision: the branch is chosen by the Action Log entry.
Execute(t) ==
    /\ pc[t] = "decided"
    /\ LET c == cur[t]
           out == [NoLast EXCEPT !.named = TRUE, !.existed = c.existed,
                                 !.decided = c.decided,
                                 !.repeat = (c.file = Watched /\ hist.token = c.token)]
       IN /\ pc' = [pc EXCEPT ![t] = "idle"]
          /\ cur' = [cur EXCEPT ![t] = NoCall]
          /\ IF c.file \notin LogKeys(actions)
             THEN \* self._actions[self._cache_file]: KeyError
                  /\ last' = Seen(c.file, [out EXCEPT !.status = "KeyError"])
                  /\ UNCHANGED <<fs, hist>>
             ELSE IF LogValue(actions, c.file) \in ReadActions
             THEN IF cache_exists(fs, c.file)
                  THEN \* xr.open_dataset(self._cache_file)
                       /\ last' = Seen(c.file, [out EXCEPT !.status = "ok", !.branch = "read"])
                       /\ Observe(c.file, c.token, c.decided)
                       /\ UNCHANGED fs
                  ELSE /\ last' = Seen(c.file, [out EXCEPT !.status = "FileNotFoundError",
                                              !.branch = "read"])
                       /\ UNCHANGED <<fs, hist>>
             ELSE \* ds = self._func(*args); ds.to_netcdf(self._cache_file)
                  /\ fs' = SetItem(fs, c.file, Compute(Func, c.arg))
                  /\ last' = Seen(c.file, [out EXCEPT !.status = "ok", !.branch = "compute"])
                  /\ Observe(c.file, c.token, c.decided)
          /\ UNCHANGED <<tokens, actions, dirs, atStart>>

\* The tests' persisted_Dataset._actions.popitem() between calls.
PopItem ==
    /\ actions /= <<>>
    /\ actions' = SubSeq(actions, 1, Len(actions) - 1)
    /\ last' = NoLast
    /\ UNCHANGED <<tokens, fs, dirs, pc, cur, atStart, hist>>

\* The tests' rm_tmpfile(): a cache file is removed from outside the calls.
ExternalRemove(f) ==
    /\ f \in DOMAIN fs
    /\ fs' = DelItem(fs, f)
    /\ last' = NoLast
    /\ hist' = IF f = Watched THEN NoHist("other") ELSE hist
    /\ UNCHANGED <<tokens, actions, dirs, pc, cur, atStart>>

AllIdle == \A t \in Threads : pc[t] = "idle"

\* Single-threaded use (the usage the design assumes): every call is made by
\* MainThread and runs to completion before anything else happens.
MainThread == CHOOSE t \in Threads : \A u \in Threads : t <= u

Next ==
    \/ \E nameArg \in NameArgs, pathArg \in PathArgs, kw \in Kwargs :
          AllIdle /\ PersistDsRejects(nameArg, pathArg, kw)
    \/ \E nameArg \in NameArgs \ {<<>>}, pathArg \in PathArgs, arg \in Args :
          AllIdle /\ Call(MainThread, nameArg, pathArg, arg, <<>>)
    \/ \E pathArg \in PathArgs, arg \in Args, u \in Uuids :
          AllIdle /\ Call(MainThread, <<>>, pathArg, arg, <<u>>)
    \/ Execute(MainThread)
    \/ AllIdle /\ PopItem
    \/ \E f \in CacheFiles : AllIdle /\ ExternalRemove(f)

Spec == Init /\ [][Next]_vars

\* ----------------------------------------------------------------- claims
Decided(t) == pc[t] = "decided"
OnWatched(t) == Decided(t) /\ cur[t].file = Watched

\* The decision table of the design, from the three facts seen at decision time.
Table(existed, reg) ==
    IF ~existed THEN "create_cache"
    ELSE IF reg = "unknown" THEN "read_cache_trusted"
    ELSE IF reg = "same" THEN "read_cache_verified"
    ELSE "overwrite_cache"

\* C1: the action a call decides is the table's function of (file exists,
\* identity registered, token equals the registered one), with that precedence,
\* whatever the Action Log, the other identities and the history are; it is the
\* action the Action Log then holds for the identity.
C1_DecisionIsTable ==
    \A t \in Threads :
        Decided(t) =>
            /\ cur[t].decided = Table(cur[t].existed, cur[t].reg)
            /\ cur[t].file \in LogKeys(actions)
            /\ LogValue(actions, cur[t].file) = cur[t].decided

\* C1 witness: a decision on an existing, registered file with a different
\* token, while the other identity is registered and logged too.
C1_Witness ==
    \E t \in Threads :
        /\ Decided(t)
        /\ cur[t].existed
        /\ cur[t].reg = "differ"
        /\ cur[t].decided = "overwrite_cache"
        /\ Cardinality(DOMAIN tokens) = 2
        /\ Len(actions) = 2

\* C2: a file absent at process start is never read stale: whenever a call on
\* it decides a read action, the file it is about to read holds the dataset of
\* the computation the call was made with.
C2_NoStaleRead ==
    \A t \in Threads :
        (OnWatched(t) /\ ~atStart /\ cur[t].decided \in ReadActions) =>
            /\ cache_exists(fs, cur[t].file)
            /\ fs[cur[t].file] = Compute(Func, cur[t].arg)

\* C3: when a call decides overwrite_cache, the Token Registry maps the identity
\* to the token of that call when the decision step returns.
C3_OverwriteRegistersToken ==
    \A t \in Threads :
        (Decided(t) /\ cur[t].decided = "overwrite_cache") =>
            /\ cur[t].file \in DOMAIN tokens
            /\ tokens[cur[t].file] = cur[t].token

\* C4: a call on an existing file whose identity is registered with another
\* token decides overwrite_cache, and the file is gone when the decision step
\* returns, before the computation runs; the call then computes and writes the
\* new file.
C4_OverwriteRemovesFirst ==
    /\ \A t \in Threads :
          (Decided(t) /\ cur[t].existed /\ cur[t].reg = "differ") =>
              /\ cur[t].decided = "overwrite_cache"
              /\ ~cache_exists(fs, cur[t].file)
    /\ (last.status = "ok" /\ last.decided = "overwrite_cache") =>
          /\ last.existed
          /\ last.branch = "compute"
          /\ cache_exists(fs, Watched)

\* C4 witness: a call that decided overwrite_cache has completed.
C4_Witness ==
    /\ last.status = "ok"
    /\ last.decided = "overwrite_cache"
    /\ last.branch = "compute"

\* C5 as stated: from a fresh process and an absent file, the first call decides
\* create_cache, no later call of the run with the same token decides
\* create_cache, the second decides read_cache_trusted and the third
\* read_cache_verified.
C5_SecondCallTrusted ==
    \A t \in Threads :
        OnWatched(t) =>
            /\ hist.stage = "fresh" => cur[t].decided = "create_cache"
            /\ (hist.stage \in {"first", "second", "later"} /\ hist.token = cur[t].token)
                  => cur[t].decided /= "create_cache"
            /\ (hist.stage = "first" /\ hist.token = cur[t].token)
                  => cur[t].decided = "read_cache_trusted"
            /\ (hist.stage = "second" /\ hist.token = cur[t].token)
                  => cur[t].decided = "read_cache_verified"

\* C5 amended: from a fresh process and an absent file, the first call decides
\* create_cache, and the second and every later call of a run with the same
\* token (each call completing, the file not removed from outside) decides
\* read_cache_verified, so create_cache is decided exactly once.
C5_SecondCallVerified ==
    \A t \in Threads :
        OnWatched(t) =>
            /\ hist.stage = "fresh" => cur[t].decided = "create_cache"
            /\ (hist.stage \in {"first", "second", "later"} /\ hist.token = cur[t].token)
                  => cur[t].decided = "read_cache_verified"

\* C5 witness: the third call of such a run has decided.
C5_Witness ==
    \E t \in Threads :
        /\ OnWatched(t)
        /\ hist.stage = "second"
        /\ hist.token = cur[t].token
        /\ cur[t].decided = "read_cache_verified"

\* C6: after a call that decided read_cache_trusted, the next call on the same
\* identity with the same token, the file untouched in between, decides
\* read_cache_verified.
C6_TrustedThenVerified ==
    \A t \in Threads :
        (OnWatched(t) /\ hist.decided = "read_cache_trusted" /\ hist.token = cur[t].token)
            => cur[t].decided = "read_cache_verified"

\* C6 witness: such a next call has decided.
C6_Witness ==
    \E t \in Threads :
        /\ OnWatched(t)
        /\ hist.decided = "read_cache_trusted"
        /\ hist.token = cur[t].token
        /\ cur[t].existed

\* C7: after any completed call with a token, the next call on the identity
\* with the same token, the file untouched in between, decides a read action
\* and does not run the computation.
C7_RepeatIsRead ==
    /\ \A t \in Threads :
          (OnWatched(t) /\ hist.token = cur[t].token) => cur[t].decided \in ReadActions
    /\ (last.status = "ok" /\ last.repeat) => last.branch = "read"

\* C8: a call made with trust_cache on an existing file completes with a read
\* action, without running the computation and without removing the file.
C8_TrustOverrideReads ==
    (last.kw = "trust_cache" /\ last.named /\ last.existed) =>
        /\ last.status = "ok"
        /\ last.decided \in ReadActions
        /\ last.branch = "read"
        /\ cache_exists(fs, Watched)

\* C9: a call made with clobber on an existing file decides overwrite_cache,
\* whatever the Token Registry holds for the identity.
C9_ClobberOverwrites ==
    (last.kw = "clobber" /\ last.named /\ last.existed) =>
        /\ last.status = "ok"
        /\ last.decided = "overwrite_cache"

\* C10: a call on a construction without a name completes, with the decision
\* create_cache and no error.
C10_NoNameCreates ==
    (last.status /= "none" /\ ~last.named /\ last.kw = "none") =>
        /\ last.status = "ok"
        /\ last.decided = "create_cache"

\* C14: in single-threaded use, when the decision step returns the file exists
\* exactly if the decision is a read action; for create_cache and
\* overwrite_cache no file exists and its directory does.
C14_FileIffRead ==
    \A t \in Threads :
        Decided(t) =>
            /\ cache_exists(fs, cur[t].file) <=> cur[t].decided \in {"read_cache_trusted", "read_cache_verified"}
            /\ cur[t].decided \in {"create_cache", "overwrite_cache"} =>
                  /\ ~cache_exists(fs, cur[t].file)
                  /\ dirname(cur[t].file) \in dirs

\* C14 witness: create_cache decided for a file that the process start left
\* without any file in the directory.
C14_Witness ==
    \E t \in Threads :
        /\ Decided(t)
        /\ cur[t].decided = "create_cache"
        /\ fs = <<>>
        /\ dirname(cur[t].file) \in dirs

\* C15: a call runs the computation and writes the file exactly if its decision
\* is create_cache or overwrite_cache; a call that decides a read action
\* neither computes nor writes nor deletes the file.
C15_ComputeIffWriteDecision ==
    [][\A t \in Threads :
          /\ (pc[t] = "idle" /\ pc'[t] = "decided"
                  /\ cur'[t].decided \notin {"create_cache", "overwrite_cache"})
                => fs' = fs
          /\ (pc[t] = "decided" /\ pc'[t] = "idle") =>
                /\ cur[t].decided \in {"create_cache", "overwrite_cache"} =>
                      /\ fs' = SetItem(fs, cur[t].file, Compute(Func, cur[t].arg))
                      /\ cur[t].file = Watched => last'.branch = "compute"
                /\ cur[t].decided \notin {"create_cache", "overwrite_cache"} =>
                      /\ fs' = fs
                      /\ cur[t].file = Watched => last'.branch = "read"
      ]_vars

\* C15 witness: a call that decided read_cache_verified has completed by reading.
C15_Witness ==
    /\ last.status = "ok"
    /\ last.decided = "read_cache_verified"
    /\ last.branch = "read"

\* C17: the Token Registry is empty at process start, holds the identity of a
\* call once its decision step has completed, and never loses an entry.
C17_RegistryOnlyGrows ==
    /\ tokens = <<>>
    /\ [][\A f \in DOMAIN tokens : f \in DOMAIN tokens']_vars
    /\ [](\A t \in Threads : Decided(t) => cur[t].file \in DOMAIN tokens)

\* C17 witness: the watched identity is still registered after its file was
\* removed from outside and the Action Log was emptied.
C17_Witness ==
    /\ AllIdle
    /\ Watched \in DOMAIN tokens
    /\ ~cache_exists(fs, Watched)
    /\ actions = <<>>

\* The Action Log without its last entry, as popitem() leaves it.
PopLog(log) == SubSeq(log, 1, Len(log) - 1)

\* C18: the Action Log is only observed: from two states that differ in the
\* Action Log alone (an entry popped, or the log empty) the same call makes the
\* same decision and leaves the same Token Registry, files and directories, and
\* the entry that chooses the execution branch is the one the call's own
\* decision step wrote.
C18_LogIsObservedOnly ==
    /\ \A nameArg \in NameArgs \ {<<>>}, pathArg \in PathArgs, arg \in Args :
          \A other \in {<<>>, PopLog(actions)} :
              LET file == cache_file(InitPath(pathArg), InitName(nameArg, <<>>), NC)
                  token == tokenize(Func, arg)
                  r1 == check_token_assign_action(file, token, tokens, actions, fs, dirs)
                  r2 == check_token_assign_action(file, token, tokens, other, fs, dirs)
              IN /\ r1.tokens = r2.tokens
                 /\ r1.fs = r2.fs
                 /\ r1.dirs = r2.dirs
                 /\ LogValue(r1.actions, file) = LogValue(r2.actions, file)
    /\ \A t \in Threads :
          Decided(t) => LogValue(actions, cur[t].file) = cur[t].decided

\* C18 witness: a call on a registered identity has decided while the entry of
\* the other registered identity is gone from the Action Log.
C18_Witness ==
    \E t \in Threads :
        /\ Decided(t)
        /\ cur[t].reg /= "unknown"
        /\ Cardinality(DOMAIN tokens) = 2
        /\ Len(actions) = 1

\* d and e agree on key g.
SameAt(d, e, g) ==
    /\ g \in DOMAIN d <=> g \in DOMAIN e
    /\ g \in DOMAIN d => d[g] = e[g]

\* C19: a call that decides read_cache_verified changes neither the Token
\* Registry nor the files; a call on one identity never changes the registry
\* entry or the file of another identity.
C19_Frame ==
    [][\A t \in Threads :
          /\ (pc[t] = "idle" /\ pc'[t] = "decided") =>
                /\ \A g \in CacheFiles \ {cur'[t].file} :
                      SameAt(tokens, tokens', g) /\ SameAt(fs, fs', g)
                /\ cur'[t].decided = "read_cache_verified" =>
                      tokens' = tokens /\ fs' = fs /\ dirs' = dirs
          /\ (pc[t] = "decided" /\ pc'[t] = "idle") =>
                /\ \A g \in CacheFiles \ {cur[t].file} :
                      SameAt(tokens, tokens', g) /\ SameAt(fs, fs', g)
                /\ cur[t].decided = "read_cache_verified" =>
                      tokens' = tokens /\ fs' = fs /\ dirs' = dirs
      ]_vars

\* C19 witness: a read_cache_verified call has completed while both identities
\* are registered and both files exist.
C19_Witness ==
    /\ last.status = "ok"
    /\ last.decided = "read_cache_verified"
    /\ Cardinality(DOMAIN tokens) = 2
    /\ Cardinality(DOMAIN fs) = 2

\* ------------------------------------------------- filesystem call failures
\* Mutant: the overwrite branch records the token before it removes the file.
check_token_assign_action_raises_RegistersFirst(file, token, T, A, F, D) ==
    IF cache_exists(F, file)
    THEN [tokens |-> SetItem(T, file, token), actions |-> A, fs |-> F, dirs |-> D]
    ELSE [tokens |-> RegisterCreated(T, file, token),
          actions |-> LogSet(A, file, "create_cache"),
          fs |-> F,
          dirs |-> D]

\* _check_token_assign_action when the filesystem call of its branch raises
\* OSError: os.remove (line 63) is the first statement of the overwrite branch
\* that changes anything; os.makedirs (line 79) comes after the create branch
\* has assigned _tokens and _actions (lines 75-76).
check_token_assign_action_raises(file, token, T, A, F, D) ==
    IF cache_exists(F, file)
    THEN [tokens |-> T, actions |-> A, fs |-> F, dirs |-> D]
    ELSE [tokens |-> RegisterCreated(T, file, token),
          actions |-> LogSet(A, file, "create_cache"),
          fs |-> F,
          dirs |-> D]

\* persist_ds(func, name=..., path=...)(arg) when os.remove or os.makedirs
\* raises: the exception leaves __call__ at line 103, before the branch.
CallFails(t, nameArg, pathArg, arg) ==
    /\ pc[t] = "idle"
    /\ LET file == cache_file(InitPath(pathArg), InitName(nameArg, <<>>), NC)
           token == tokenize(Func, arg)
           r == check_token_assign_action_raises(file, token, tokens, actions, fs, dirs)
       IN /\ \/ /\ cache_exists(fs, file)
                /\ file \in DOMAIN tokens
                /\ TokenMismatch(token, tokens[file])
             \/ /\ ~cache_exists(fs, file)
                /\ dirname(file) \notin dirs
          /\ tokens' = r.tokens
          /\ actions' = r.actions
          /\ fs' = r.fs
          /\ dirs' = r.dirs
          /\ last' = [NoLast EXCEPT !.status = "OSError", !.named = TRUE,
                                    !.existed = cache_exists(fs, file)]
          /\ hist' = IF file = Watched THEN NoHist("other") ELSE hist
          /\ UNCHANGED <<pc, cur, atStart>>

NextFail ==
    \/ \E nameArg \in NameArgs \ {<<>>}, pathArg \in PathArgs, arg \in Args :
          AllIdle /\ Call(MainThread, nameArg, pathArg, arg, <<>>)
    \/ Execute(MainThread)
    \/ \E f \in CacheFiles : AllIdle /\ ExternalRemove(f)
    \/ \E nameArg \in NameArgs \ {<<>>}, pathArg \in PathArgs, arg \in Args :
          AllIdle /\ CallFails(MainThread, nameArg, pathArg, arg)

\* Single-threaded use, calls by name, in which the filesystem calls may fail.
SpecFail == Init /\ [][NextFail]_vars

\* C12: when os.remove fails on the overwrite branch the call ends with the
\* error, no computation runs or is pending, nothing is written, and the Token
\* Registry is what it was before the call.
C12_RemoveFailureKeepsRegistry ==
    [][(last'.status = "OSError" /\ last'.existed) =>
          /\ tokens' = tokens
          /\ fs' = fs
          /\ pc' = pc
          /\ \A t \in Threads : pc'[t] = "idle"
      ]_vars

\* C12 witness: a call has ended with the error of os.remove.
C12_Witness == last.status = "OSError" /\ last.existed /\ tokens /= <<>>

\* C13: when os.makedirs fails on the create branch the call ends with the
\* error and the Token Registry is what it was before the call.
C13_MakedirsFailureKeepsRegistry ==
    [][(last'.status = "OSError" /\ ~last'.existed) => tokens' = tokens]_vars

\* ------------------------------------------------ a func that is no callable
\* The argument of test_arg_check.
NotCallable == "not a function"

\* persist_ds('not a function', ...): ValueError at line 165, before the
\* persisted_Dataset is constructed.
PersistDsNotCallable ==
    /\ last' = [NoLast EXCEPT !.status = "ValueError"]
    /\ UNCHANGED <<tokens, actions, fs, dirs, pc, cur, atStart, hist>>

\* persisted_Dataset('not a function', name=..., path=...)(arg): __init__ stores
\* func unchecked, __call__ tokenizes, decides, and then either reads the file or
\* fails at self._func(*args, **kwargs) with TypeError, nothing written.
CallNotCallable(t, nameArg, pathArg, arg) ==
    /\ pc[t] = "idle"
    /\ LET file == cache_file(InitPath(pathArg), InitName(nameArg, <<>>), NC)
           token == tokenize(NotCallable, arg)
           r == check_token_assign_action(file, token, tokens, actions, fs, dirs)
           decided == LogValue(r.actions, file)
           out == [NoLast EXCEPT !.named = TRUE, !.existed = cache_exists(fs, file),
                                 !.decided = decided]
       IN /\ tokens' = r.tokens
          /\ actions' = r.actions
          /\ fs' = r.fs
          /\ dirs' = r.dirs
          /\ last' = IF decided \in ReadActions
                     THEN Seen(file, [out EXCEPT !.status = "ok", !.branch = "read"])
                     ELSE Seen(file, [out EXCEPT !.status = "TypeError",
                                                 !.branch = "compute"])
          /\ hist' = IF file = Watched THEN NoHist("other") ELSE hist
          /\ UNCHANGED <<pc, cur, atStart>>

NextCtor ==
    \/ \E nameArg \in NameArgs \ {<<>>}, pathArg \in PathArgs, arg \in Args :
          AllIdle /\ Call(MainThread, nameArg, pathArg, arg, <<>>)
    \/ Execute(MainThread)
    \/ \E f \in CacheFiles : AllIdle /\ ExternalRemove(f)
    \/ AllIdle /\ PersistDsNotCallable
    \/ \E nameArg \in NameArgs \ {<<>>}, pathArg \in PathArgs, arg \in Args :
          AllIdle /\ CallNotCallable(MainThread, nameArg, pathArg, arg)

\* Single-threaded use, calls by name, in which func may be a value that is
\* not callable.
SpecCtor == Init /\ [][NextCtor]_vars

\* C11: a computation that is not callable is refused with ValueError on every
\* construction path, persisted_Dataset directly included, before the Token
\* Registry, the Action Log, the files or the directories are touched.
C11_NotCallableRefused ==
    [][/\ PersistDsNotCallable =>
             UNCHANGED <<tokens, actions, fs, dirs>>
       /\ \A nameArg \in NameArgs \ {<<>>}, pathArg \in PathArgs, arg \in Args :
             CallNotCallable(MainThread, nameArg, pathArg, arg) =>
                /\ last'.status = "ValueError"
                /\ UNCHANGED <<tokens, actions, fs, dirs>>
      ]_vars

\* ------------------------------------------------------------ concurrent use
OtherThread == CHOOSE t \in Threads : t /= MainThread

Callers == {MainThread, OtherThread}

\* The name arguments that resolve to the watched file.
WatchedNames == {n \in NameArgs \ {<<>>} : cache_file(CacheDir, InitName(n, <<>>), NC) = Watched}

\* Two threads call on the watched identity with no synchronization: the
\* decision step of one may run between the decision and the execution of the
\* other.
NextConc ==
    \/ \E t \in Callers, nameArg \in WatchedNames, pathArg \in PathArgs, arg \in Args :
          Call(t, nameArg, pathArg, arg, <<>>)
    \/ \E t \in Callers : Execute(t)
    \/ AllIdle /\ ExternalRemove(Watched)

SpecConc == Init /\ [][NextConc]_vars

\* C16: two calls in flight on the same identity that both saw the file absent
\* have both decided create_cache, and the Action Log entry that chooses their
\* branch is create_cache: both will compute and write.
C16_BothCreate ==
    \A t \in Threads, u \in Threads :
        (/\ t /= u
         /\ Decided(t) /\ Decided(u)
         /\ cur[t].file = cur[u].file
         /\ ~cur[t].existed /\ ~cur[u].existed) =>
            /\ cur[t].decided = "create_cache"
            /\ cur[u].decided = "create_cache"
            /\ LogValue(actions, cur[t].file) = "create_cache"

\* C16 witness: one caller that saw the file absent has computed and written it,
\* and the other caller, which saw it absent too, is about to compute and write.
C16_Witness ==
    /\ last.status = "ok" /\ last.branch = "compute" /\ ~last.existed
    /\ last.decided = "create_cache"
    /\ cache_exists(fs, Watched)
    /\ \E t \in Threads :
          /\ OnWatched(t)
          /\ ~cur[t].existed
          /\ cur[t].decided = "create_cache"
          /\ LogValue(actions, Watched) = "create_cache"

\* C20: the branch a call executes is the branch of the action its own decision
\* step assigned, also when another thread's call on the identity ran in
\* between.
C20_BranchIsOwnDecision ==
    [][\A t \in Threads :
          (pc[t] = "decided" /\ pc'[t] = "idle") =>
              IF cur[t].decided \in {"read_cache_trusted", "read_cache_verified"}
              THEN fs' = fs
              ELSE fs' = SetItem(fs, cur[t].file, Compute(Func, cur[t].arg))
      ]_vars

====
